---- MODULE Spec2Model ----
(***************************************************************************)
(* The Model of the 3D viewer (model.cpp, tranformation.cpp): the session  *)
(* state (file name, vertex coordinates, edge indices, error code), the    *)
(* operations SetFileName, Parser and Transform, and the line parsers;     *)
(* the Controller's slots and signals (controller.h); of the View          *)
(* (gui.cpp, opengl_widget.cpp) the slider handlers, ClearSliders_ and     *)
(* dropEvent.  Signals are delivered synchronously, as Qt does for direct  *)
(* connections inside one thread.                                          *)
(*                                                                         *)
(* Text is a sequence of one-character strings.  A double is an IEEE 754   *)
(* binary64 number with round-to-nearest-even arithmetic; infinities, NaN, *)
(* subnormals and the sign of zero stay outside the values the inputs      *)
(* reach.  The numerals of the input alphabet have no exponent, "inf",     *)
(* "nan" or hexadecimal form.                                              *)
(***************************************************************************)
EXTENDS Integers, Sequences, FiniteSets, TLC

VARIABLES
  filename_,      \* Model::filename_
  vertex_coord_,  \* Model::vertex_coord_
  vertex_index_,  \* Model::vertex_index_
  error_code_,    \* Model::error_code_
  strategy_,      \* Model::transformation_model_.strategy_
  last_op,        \* history: the operation that produced this state
  arg,            \* history: <<the argument of the most recent SetFileName>>
  opened_path,    \* history: the paths the last operation gave to ifstream
  input,          \* history: the lines the last Parser call had to read
  pre,            \* history: the Model's fields before the last operation
  nops,           \* history: operations since the last SetFileName
  is_open,        \* history: file.is_open() in the last operation, if a Parser
  trail,          \* history: the Transform calls since the last other
                  \* operation, each with vertex_coord_ before it
  handler,        \* history: the slot or event handler that made the last
                  \* operation, "" if the Model was called directly
  emitted,        \* the signals emitted during the last operation, in order
  slider,         \* View: the value of each QSlider of ui_
  transform_state_, \* View::transform_state_
  requested       \* history: the TransformRequested signals since the last
                  \* ModelLoaded, each with the slider it came from

vars == <<filename_, vertex_coord_, vertex_index_, error_code_, strategy_,
          last_op, arg, opened_path, input, pre, nops, is_open, trail,
          handler, emitted, slider, transform_state_, requested>>

viewVars == <<slider, transform_state_, requested>>

----------------------------------------------------------------------------
(* Bounds of the exploration *)

MaxOps == 2

MaxLines == 2

MaxFields == 4

----------------------------------------------------------------------------
(* enum error_list, enum transformation_t, Model's constants *)

kNoError == 0

kFileWrongExtension == 1

kFailedToOpen == 2

kIncorrectData == 3

kX == 0

kY == 1

kZ == 2

kMove == 0

kRotate == 1

kScale == 2

kMinObjFilenameLength == 5

kNormalizationThreshold == 10

----------------------------------------------------------------------------
(* double arithmetic: IEEE 754 binary64, round to nearest, ties to even.    *)
(* A double is <<s, m, e>> of value s * m * 2^e: s is -1, 0 or 1, the       *)
(* significand m is a natural number of at most 53 bits, odd unless the     *)
(* value is zero, held as a sequence of 15-bit limbs, lowest first.         *)

LimbBits == 15

LimbBase == 32768

MantissaBits == 53

Big == Seq(Nat)

Pow2[k \in Nat] == IF k = 0 THEN 1 ELSE 2 * Pow2[k - 1]

Pow10[k \in Nat] == IF k = 0 THEN 1 ELSE 10 * Pow10[k - 1]

Abs(n) == IF n < 0 THEN -n ELSE n

Sgn(n) == IF n < 0 THEN -1 ELSE IF n > 0 THEN 1 ELSE 0

MaxOf(a, b) == IF a < b THEN b ELSE a

MinOf(a, b) == IF a < b THEN a ELSE b

Limb(a, i) == IF i <= Len(a) THEN a[i] ELSE 0

Zeros[n \in Nat] == [i \in 1..n |-> 0]

\* a without the zero limbs at its high end
BTrim[a \in Big] ==
  IF a # <<>> /\ a[Len(a)] = 0 THEN BTrim[SubSeq(a, 1, Len(a) - 1)] ELSE a

BFromNat[n \in Nat] ==
  IF n = 0 THEN <<>> ELSE <<n % LimbBase>> \o BFromNat[n \div LimbBase]

BAddFrom[a \in Big, b \in Big, i \in Nat, carry \in Nat, acc \in Big] ==
  IF i > Len(a) /\ i > Len(b)
  THEN IF carry = 0 THEN acc ELSE Append(acc, carry)
  ELSE BAddFrom[a, b, i + 1, (Limb(a, i) + Limb(b, i) + carry) \div LimbBase,
                Append(acc, (Limb(a, i) + Limb(b, i) + carry) % LimbBase)]

BAdd[a \in Big, b \in Big] == BAddFrom[a, b, 1, 0, <<>>]

\* a - b for a >= b
BSubFrom[a \in Big, b \in Big, i \in Nat, borrow \in Nat, acc \in Big] ==
  IF i > Len(a) THEN BTrim[acc]
  ELSE BSubFrom[a, b, i + 1,
                IF a[i] - Limb(b, i) - borrow < 0 THEN 1 ELSE 0,
                Append(acc, (a[i] - Limb(b, i) - borrow + LimbBase) % LimbBase)]

BSub[a \in Big, b \in Big] == BSubFrom[a, b, 1, 0, <<>>]

BCmpFrom[a \in Big, b \in Big, i \in Nat] ==
  IF i = 0 THEN 0
  ELSE IF a[i] < b[i] THEN -1
  ELSE IF a[i] > b[i] THEN 1
  ELSE BCmpFrom[a, b, i - 1]

\* the sign of a - b
BCmp[a \in Big, b \in Big] ==
  IF Len(a) < Len(b) THEN -1
  ELSE IF Len(a) > Len(b) THEN 1
  ELSE BCmpFrom[a, b, Len(a)]

\* a * k for a limb k
BMulLimbFrom[a \in Big, k \in Nat, i \in Nat, carry \in Nat, acc \in Big] ==
  IF i > Len(a) THEN BTrim[Append(acc, carry)]
  ELSE BMulLimbFrom[a, k, i + 1, (a[i] * k + carry) \div LimbBase,
                    Append(acc, (a[i] * k + carry) % LimbBase)]

BMulLimb[a \in Big, k \in Nat] == BMulLimbFrom[a, k, 1, 0, <<>>]

BMulFrom[a \in Big, b \in Big, j \in Nat, acc \in Big] ==
  IF j > Len(b) THEN acc
  ELSE BMulFrom[a, b, j + 1, BAdd[acc, Zeros[j - 1] \o BMulLimb[a, b[j]]]]

BMul[a \in Big, b \in Big] == BTrim[BMulFrom[a, b, 1, <<>>]]

\* a * 2^n
BShl[a \in Big, n \in Nat] ==
  IF a = <<>> THEN a
  ELSE Zeros[n \div LimbBits] \o BMulLimb[a, Pow2[n % LimbBits]]

\* a divided by a limb d > 0, from the high end: <<quotient, remainder>>
BDivLimbFrom[a \in Big, d \in Nat, i \in Nat, rem \in Nat, acc \in Big] ==
  IF i = 0 THEN <<BTrim[acc], rem>>
  ELSE BDivLimbFrom[a, d, i - 1, (rem * LimbBase + a[i]) % d,
                    <<(rem * LimbBase + a[i]) \div d>> \o acc]

BDivLimb[a \in Big, d \in Nat] == BDivLimbFrom[a, d, Len(a), 0, <<>>]

\* floor(a / 2^n)
BShr[a \in Big, n \in Nat] ==
  IF n \div LimbBits >= Len(a) THEN <<>>
  ELSE BDivLimb[SubSeq(a, n \div LimbBits + 1, Len(a)), Pow2[n % LimbBits]][1]

\* bit n of a, bit 0 the lowest
Bit(a, n) == (Limb(a, n \div LimbBits + 1) \div Pow2[n % LimbBits]) % 2

\* some bit of a below bit n is set
BLowBits[a \in Big, n \in Nat] ==
  \/ \E i \in 1..MinOf(n \div LimbBits, Len(a)) : a[i] # 0
  \/ Limb(a, n \div LimbBits + 1) % Pow2[n % LimbBits] # 0

NatBitLen[n \in Nat] == IF n = 0 THEN 0 ELSE 1 + NatBitLen[n \div 2]

BBitLen[a \in Big] ==
  IF a = <<>> THEN 0 ELSE LimbBits * (Len(a) - 1) + NatBitLen[a[Len(a)]]

NatLowZeros[n \in Nat] == IF n % 2 = 1 THEN 0 ELSE 1 + NatLowZeros[n \div 2]

\* the number of zero bits below the lowest set bit of a # 0
BLowZeros[a \in Big, i \in Nat] ==
  IF a[i] = 0 THEN LimbBits + BLowZeros[a, i + 1] ELSE NatLowZeros[a[i]]

\* one step of binary long division by d on <<q, r>> doubled, the next bit in
BDivStep[d \in Big, q \in Big, r \in Big] ==
  IF BCmp[r, d] >= 0 THEN <<BAdd[q, <<1>>], BSub[r, d]>> ELSE <<q, r>>

\* a = q * d + r by binary long division, bit i of a next: <<q, r>>
BDivModFrom[a \in Big, d \in Big, i \in Int, qr \in Big \X Big] ==
  IF i < 0 THEN qr
  ELSE BDivModFrom[a, d, i - 1,
         BDivStep[d, BShl[qr[1], 1], BAdd[BShl[qr[2], 1], BFromNat[Bit(a, i)]]]]

BDivMod[a \in Big, d \in Big] ==
  IF Len(d) = 1 THEN <<BDivLimb[a, d[1]][1], BFromNat[BDivLimb[a, d[1]][2]]>>
  ELSE BDivModFrom[a, d, BBitLen[a] - 1, <<<<>>, <<>>>>]

Dbl == Int \X Big \X Int

DZero == <<0, <<>>, 0>>

\* s * m * 2^e for m # 0 with z low zero bits: the canonical form
DPack[s \in Int, m \in Big, e \in Int, z \in Nat] == <<s, BShr[m, z], e + z>>

DPackNorm[s \in Int, m \in Big, e \in Int] == DPack[s, m, e, BLowZeros[m, 1]]

\* m with its n low bits rounded away; sticky: the exact value is above m
DRoundOff[s \in Int, m \in Big, e \in Int, n \in Nat, sticky \in BOOLEAN] ==
  IF Bit(m, n - 1) = 1 /\ (sticky \/ BLowBits[m, n - 1] \/ Bit(m, n) = 1)
  THEN DPackNorm[s, BAdd[BShr[m, n], <<1>>], e + n]
  ELSE DPackNorm[s, BShr[m, n], e + n]

\* the double nearest to s * (m + sticky) * 2^e, ties to even
DRound[s \in Int, m \in Big, e \in Int, sticky \in BOOLEAN] ==
  IF m = <<>> THEN DZero
  ELSE IF BBitLen[m] > MantissaBits
       THEN DRoundOff[s, m, e, BBitLen[m] - MantissaBits, sticky]
       ELSE DPackNorm[s, m, e]

FromInt(n) == DRound[Sgn(n), BFromNat[Abs(n)], 0, FALSE]

DNeg(a) == <<-a[1], a[2], a[3]>>

DAbs(a) == <<a[1] * a[1], a[2], a[3]>>

DMul[a \in Dbl, b \in Dbl] ==
  DRound[a[1] * b[1], BMul[a[2], b[2]], a[3] + b[3], FALSE]

\* sa * ma * 2^e + sb * mb * 2^e
DAddAligned[sa \in Int, ma \in Big, sb \in Int, mb \in Big, e \in Int] ==
  IF sa = sb THEN DRound[sa, BAdd[ma, mb], e, FALSE]
  ELSE IF BCmp[ma, mb] = 0 THEN DZero
  ELSE IF BCmp[ma, mb] > 0 THEN DRound[sa, BSub[ma, mb], e, FALSE]
  ELSE DRound[sb, BSub[mb, ma], e, FALSE]

DAdd[a \in Dbl, b \in Dbl] ==
  IF a[1] = 0 THEN b
  ELSE IF b[1] = 0 THEN a
  ELSE DAddAligned[a[1], BShl[a[2], a[3] - MinOf(a[3], b[3])],
                   b[1], BShl[b[2], b[3] - MinOf(a[3], b[3])], MinOf(a[3], b[3])]

DSub(a, b) == DAdd[a, DNeg(b)]

DLess(a, b) == DSub(a, b)[1] < 0

DLeq(a, b) == DSub(a, b)[1] <= 0

DDivRounded[s \in Int, qr \in Big \X Big, e \in Int] ==
  DRound[s, qr[1], e, qr[2] # <<>>]

\* a / b with a's significand shifted k bits up first
DDivBy[a \in Dbl, b \in Dbl, k \in Nat] ==
  DDivRounded[a[1] * b[1], BDivMod[BShl[a[2], k], b[2]], a[3] - b[3] - k]

DDiv[a \in Dbl, b \in Dbl] ==
  IF a[1] = 0 THEN DZero
  ELSE DDivBy[a, b, MaxOf(0, MantissaBits + 3 + BBitLen[b[2]] - BBitLen[a[2]])]

----------------------------------------------------------------------------
(* sscanf conversions *)

DigitChars == <<"0", "1", "2", "3", "4", "5", "6", "7", "8", "9">>

IsDigit(c) == \E d \in 1..10 : DigitChars[d] = c

DigitVal(c) == (CHOOSE d \in 1..10 : DigitChars[d] = c) - 1

IsSpace(c) == c \in {" ", "\t", "\r"}

Text == Seq(STRING)

\* what ScanDigits and ScanSign return
DigitRun == [val : Nat, cnt : Nat, next : Nat]

SignAt == [sign : Int, next : Nat]

\* white space skipped before a numeric conversion: the first position >= i
\* of s that holds no white space
SkipSpace[s \in Text, i \in Nat] ==
  IF i <= Len(s) /\ IsSpace(s[i]) THEN SkipSpace[s, i + 1] ELSE i

\* the run of decimal digits of s from position i
ScanDigits[s \in Text, i \in Nat, val \in Nat, cnt \in Nat] ==
  IF i <= Len(s) /\ IsDigit(s[i])
  THEN ScanDigits[s, i + 1, 10 * val + DigitVal(s[i]), cnt + 1]
  ELSE [val |-> val, cnt |-> cnt, next |-> i]

ScanSign[s \in Text, i \in Nat] ==
  IF i <= Len(s) /\ s[i] = "-" THEN [sign |-> -1, next |-> i + 1]
  ELSE IF i <= Len(s) /\ s[i] = "+" THEN [sign |-> 1, next |-> i + 1]
  ELSE [sign |-> 1, next |-> i]

\* the fraction after the integer part ip of a numeral of s
ScanFraction[s \in Text, i \in Nat] ==
  IF i <= Len(s) /\ s[i] = "." THEN ScanDigits[s, i + 1, 0, 0]
  ELSE [val |-> 0, cnt |-> 0, next |-> i]

\* the value and the end of a numeral from its sign, integer part and fraction
MakeDouble[i \in Nat, sign \in Int, ip \in DigitRun, fp \in DigitRun] ==
  IF ip.cnt + fp.cnt = 0
  THEN [ok |-> FALSE, val |-> FromInt(0), next |-> i]
  ELSE [ok |-> TRUE,
        val |-> DDiv[FromInt(sign * (ip.val * Pow10[fp.cnt] + fp.val)),
                     FromInt(Pow10[fp.cnt])],
        next |-> fp.next]

ScanMantissa[s \in Text, i \in Nat, sign \in Int, ip \in DigitRun] ==
  MakeDouble[i, sign, ip, ScanFraction[s, ip.next]]

ScanSigned[s \in Text, i \in Nat, sg \in SignAt] ==
  ScanMantissa[s, i, sg.sign, ScanDigits[s, sg.next, 0, 0]]

\* %lf at position i of s: white space, sign, digits, '.', digits
ScanDouble[s \in Text, i \in Nat] ==
  ScanSigned[s, i, ScanSign[s, SkipSpace[s, i]]]

ScanIntSigned[s \in Text, sign \in Int, ip \in DigitRun] ==
  IF ip.cnt = 0 THEN [ok |-> FALSE, val |-> 0]
  ELSE [ok |-> TRUE, val |-> sign * ip.val]

ScanIntFrom[s \in Text, sg \in SignAt] ==
  ScanIntSigned[s, sg.sign, ScanDigits[s, sg.next, 0, 0]]

\* %d on the whole of s: white space, sign, digits
ScanInt[s \in Text] == ScanIntFrom[s, ScanSign[s, SkipSpace[s, 1]]]

----------------------------------------------------------------------------
(* Model::VertexParser_ and Model::EdgesParser_ on the fields of the Model   *)
(* st = [coord, index, err, file]                                           *)

ModelState == [coord : Seq(Dbl), index : Seq(Int), err : Int, file : Text]

\* what ScanDouble returns
ScanResult == [ok : BOOLEAN, val : Dbl, next : Nat]

VertexParser_Loose(st, line) ==
  LET x == ScanDouble[line, 2]
      y == IF x.ok THEN ScanDouble[line, x.next] ELSE x
  IN  IF x.ok /\ y.ok
      THEN [st EXCEPT !.coord = @ \o <<x.val, y.val>>]
      ELSE [st EXCEPT !.err = kIncorrectData]

\* the next %lf of the format: it is tried only if the one before matched
ScanNext[line \in Text, r \in ScanResult] ==
  IF r.ok THEN ScanDouble[line, r.next] ELSE r

\* the test on sscanf's result and the three push_back calls
VertexScanned[st \in ModelState, dummy \in STRING, x \in ScanResult, y \in ScanResult, z \in ScanResult] ==
  LET parsed == 1 + (IF x.ok THEN 1 ELSE 0) + (IF y.ok THEN 1 ELSE 0)
                  + (IF z.ok THEN 1 ELSE 0)
  IN  IF parsed = 4 /\ dummy = "v"
      THEN [st EXCEPT !.coord = @ \o <<x.val, y.val, z.val>>]
      ELSE [st EXCEPT !.err = kIncorrectData]

VertexAfterY[st \in ModelState, line \in Text, x \in ScanResult, y \in ScanResult] ==
  VertexScanned[st, line[1], x, y, ScanNext[line, y]]

VertexAfterX[st \in ModelState, line \in Text, x \in ScanResult] ==
  VertexAfterY[st, line, x, ScanNext[line, x]]

\* sscanf(line, "%c %lf %lf %lf", &dummy, &x, &y, &z)
VertexParser_(st, line) == VertexAfterX[st, line, ScanDouble[line, 2]]

\* std::getline(iss, token, ' ') until the stream ends, empty tokens dropped
Tokens[s \in Text, i \in Nat, cur \in Text, acc \in Seq(Text)] ==
  IF i > Len(s)
  THEN IF cur = <<>> THEN acc ELSE Append(acc, cur)
  ELSE IF s[i] = " "
       THEN Tokens[s, i + 1, <<>>, IF cur = <<>> THEN acc ELSE Append(acc, cur)]
       ELSE Tokens[s, i + 1, Append(cur, s[i]), acc]

\* the token loop of EdgesParser_: face_indices
FaceIndices[toks \in Seq(Text), i \in Nat, acc \in Seq(Int)] ==
  IF i > Len(toks) THEN acc
  ELSE LET r == ScanInt[toks[i]]
       IN  FaceIndices[toks, i + 1,
             IF r.ok /\ r.val > 0 THEN Append(acc, r.val - 1) ELSE acc]

\* the edge loop of EdgesParser_ (i counts from 0)
RECURSIVE EdgeLoop_Open(_, _, _)
EdgeLoop_Open(fi, i, acc) ==
  IF i + 1 >= Len(fi) THEN acc
  ELSE EdgeLoop_Open(fi, i + 1, acc \o <<fi[i + 1], fi[i + 2]>>)

RECURSIVE EdgeLoop(_, _, _)
EdgeLoop(fi, i, acc) ==
  IF i >= Len(fi) THEN acc
  ELSE LET next == (i + 1) % Len(fi)
       IN  EdgeLoop(fi, i + 1, acc \o <<fi[i + 1], fi[next + 1]>>)

EdgesParser_(st, line) ==
  LET face_indices == FaceIndices[Tokens[line, 1, <<>>, <<>>], 1, <<>>]
  IN  IF Len(face_indices) >= 2
      THEN [st EXCEPT !.index = EdgeLoop(face_indices, 0, @)]
      ELSE st

----------------------------------------------------------------------------
(* Model::Normalize_ *)

MaxAbs[c \in Seq(Dbl), i \in Nat, m \in Dbl] ==
  IF i > Len(c) THEN m
  ELSE MaxAbs[c, i + 1, IF DLess(m, DAbs(c[i])) THEN DAbs(c[i]) ELSE m]

\* the for_each of Normalize_: coord *= scale_factor
ScaleAll[c \in Seq(Dbl), scale_factor \in Dbl] ==
  [i \in 1..Len(c) |-> DMul[c[i], scale_factor]]

NormalizeBy[c \in Seq(Dbl), max_abs_value \in Dbl] ==
  IF DLess(FromInt(kNormalizationThreshold), max_abs_value)
  THEN ScaleAll[c, DDiv[FromInt(1), max_abs_value]]
  ELSE c

Normalize_(c) ==
  IF c = <<>> THEN c ELSE NormalizeBy[c, MaxAbs[c, 1, FromInt(0)]]

----------------------------------------------------------------------------
(* Model::Parser: the body of the getline loop, and the loop *)

LineStep_Strict(st, line) ==
  IF line = <<>> \/ line[1] = "#" THEN st
  ELSE IF Len(line) >= 2 /\ line[1] = "v" /\ line[2] = " " THEN VertexParser_(st, line)
  ELSE IF Len(line) >= 2 /\ line[1] = "f" /\ line[2] = " "
       THEN EdgesParser_(st, SubSeq(line, 3, Len(line)))
       ELSE [st EXCEPT !.err = kIncorrectData]

LineStep(st, line) ==
  IF line = <<>> \/ line[1] = "#" THEN st
  ELSE IF Len(line) >= 2
       THEN IF line[1] = "v" /\ line[2] = " " THEN VertexParser_(st, line)
            ELSE IF line[1] = "f" /\ line[2] = " "
                 THEN EdgesParser_(st, SubSeq(line, 3, Len(line)))
                 ELSE st
       ELSE st

ParseLoopFrom_NoStop[lines \in Seq(Text), i \in Nat, st \in ModelState] ==
  IF i > Len(lines) THEN st
  ELSE ParseLoopFrom_NoStop[lines, i + 1, LineStep(st, lines[i])]

ParseLoop_NoStop(lines, i, st) == ParseLoopFrom_NoStop[lines, i, st]

\* the getline loop from line i of the file on
ParseLoopFrom[lines \in Seq(Text), i \in Nat, st \in ModelState] ==
  IF st.err = kNoError /\ i <= Len(lines)
  THEN ParseLoopFrom[lines, i + 1, LineStep(st, lines[i])]
  ELSE st

ParseLoop(lines, i, st) == ParseLoopFrom[lines, i, st]

----------------------------------------------------------------------------
(* MoveStrategy, RotateStrategy, ScaleStrategy; positions are 1-based here, *)
(* so the loop index i of the code is position i + 1                        *)

MoveStrategy_EveryAxis(c, step, axis) ==
  [j \in 1..Len(c) |-> IF j - 1 >= axis THEN DAdd[c[j], step] ELSE c[j]]

MoveStrategy(c, step, axis) ==
  [j \in 1..Len(c) |->
     IF j - 1 >= axis /\ (j - 1 - axis) % 3 = 0 THEN DAdd[c[j], step]
     ELSE c[j]]

\* M_PI / 180.0
kRadianToDegree == <<1, <<7481, 17573, 32026, 142>>, -58>>

\* M_PI / 2 as a double: 90 * kRadianToDegree
HalfPi == <<1, <<1443, 21777, 4349, 25>>, -49>>

\* M_PI as a double: 180 * kRadianToDegree
Pi == <<1, <<1443, 21777, 4349, 25>>, -48>>

\* std::cos(HalfPi): 6.123233995736766e-17
CosHalfPi == <<1, <<23559, 26152, 6296, 141>>, -106>>

\* std::sin(Pi): 1.2246467991473532e-16
SinPi == <<1, <<23559, 26152, 6296, 141>>, -105>>

\* std::cos and std::sin at the arguments the requests reach
StdCos(rad_angle) ==
  CASE rad_angle = DZero -> FromInt(1)
    [] rad_angle = HalfPi -> CosHalfPi
    [] rad_angle = DNeg(HalfPi) -> CosHalfPi
    [] rad_angle = Pi -> FromInt(-1)
    [] rad_angle = DNeg(Pi) -> FromInt(-1)

StdSin(rad_angle) ==
  CASE rad_angle = DZero -> DZero
    [] rad_angle = HalfPi -> FromInt(1)
    [] rad_angle = DNeg(HalfPi) -> FromInt(-1)
    [] rad_angle = Pi -> SinPi
    [] rad_angle = DNeg(Pi) -> DNeg(SinPi)

RotateAroundX_InPlace(c, cos_val, sin_val) ==
  [j \in 1..Len(c) |->
     IF (j - 1) % 3 = 1
     THEN DSub(DMul[cos_val, c[j]], DMul[sin_val, c[j + 1]])
     ELSE IF (j - 1) % 3 = 2
          THEN DAdd[DMul[sin_val, DSub(DMul[cos_val, c[j - 1]], DMul[sin_val, c[j]])],
                    DMul[cos_val, c[j]]]
          ELSE c[j]]

RotateAroundX_(c, cos_val, sin_val) ==
  [j \in 1..Len(c) |->
     IF (j - 1) % 3 = 1
     THEN DSub(DMul[cos_val, c[j]], DMul[sin_val, c[j + 1]])
     ELSE IF (j - 1) % 3 = 2
          THEN DAdd[DMul[sin_val, c[j - 1]], DMul[cos_val, c[j]]]
          ELSE c[j]]

RotateAroundY_(c, cos_val, sin_val) ==
  [j \in 1..Len(c) |->
     IF (j - 1) % 3 = 0
     THEN DAdd[DMul[cos_val, c[j]], DMul[sin_val, c[j + 2]]]
     ELSE IF (j - 1) % 3 = 2
          THEN DAdd[DMul[DNeg(sin_val), c[j - 2]], DMul[cos_val, c[j]]]
          ELSE c[j]]

RotateAroundZ_InPlace(c, cos_val, sin_val) ==
  [j \in 1..Len(c) |->
     IF (j - 1) % 3 = 0
     THEN DAdd[DMul[cos_val, c[j]], DMul[sin_val, c[j + 1]]]
     ELSE IF (j - 1) % 3 = 1
          THEN DAdd[DMul[DNeg(sin_val),
                         DAdd[DMul[cos_val, c[j - 1]], DMul[sin_val, c[j]]]],
                    DMul[cos_val, c[j]]]
          ELSE c[j]]

RotateAroundZ_(c, cos_val, sin_val) ==
  [j \in 1..Len(c) |->
     IF (j - 1) % 3 = 0
     THEN DAdd[DMul[cos_val, c[j]], DMul[sin_val, c[j + 1]]]
     ELSE IF (j - 1) % 3 = 1
          THEN DAdd[DMul[DNeg(sin_val), c[j - 1]], DMul[cos_val, c[j]]]
          ELSE c[j]]

\* the switch of RotateStrategy::Transform
RotateAxis[c \in Seq(Dbl), axis \in Int, cos_val \in Dbl, sin_val \in Dbl] ==
  IF axis = kX THEN RotateAroundX_(c, cos_val, sin_val)
  ELSE IF axis = kY THEN RotateAroundY_(c, cos_val, sin_val)
  ELSE IF axis = kZ THEN RotateAroundZ_(c, cos_val, sin_val)
  ELSE c

RotateBy[c \in Seq(Dbl), axis \in Int, rad_angle \in Dbl] ==
  RotateAxis[c, axis, StdCos(rad_angle), StdSin(rad_angle)]

RotateStrategy(c, angle, axis) ==
  IF Len(c) < 3 THEN c ELSE RotateBy[c, axis, DMul[angle, kRadianToDegree]]

ScaleStrategy_Unguarded(c, scale, axis) ==
  [j \in 1..Len(c) |-> DMul[c[j], scale]]

ScaleStrategy(c, scale, axis) ==
  IF DLeq(scale, FromInt(0)) THEN c
  ELSE [j \in 1..Len(c) |-> DMul[c[j], scale]]

\* Strategy::PerformTransformation with the strategy object s
PerformTransformation(s, c, value, axis) ==
  IF s = "Move" THEN MoveStrategy(c, value, axis)
  ELSE IF s = "Rotate" THEN RotateStrategy(c, value, axis)
  ELSE IF s = "Scale" THEN ScaleStrategy(c, value, axis)
  ELSE c

\* the switch of Model::Transform: the strategy it installs, "" for default
StrategyOf(strategy_type) ==
  IF strategy_type = kMove THEN "Move"
  ELSE IF strategy_type = kRotate THEN "Rotate"
  ELSE IF strategy_type = kScale THEN "Scale"
  ELSE ""

----------------------------------------------------------------------------
(* Model::SetFileName, Model::IsValidObjExtension_, Model::ClearData_ *)

ObjSuffix == <<".", "o", "b", "j">>

IsValidObjExtension_AnyLength(filename) ==
  Len(filename) >= 4 /\ SubSeq(filename, Len(filename) - 3, Len(filename)) = ObjSuffix

IsValidObjExtension_(filename) ==
  IF Len(filename) < kMinObjFilenameLength THEN FALSE
  ELSE Len(filename) >= 4
       /\ SubSeq(filename, Len(filename) - 3, Len(filename)) = ObjSuffix

ClearData_KeepIndex(st) == [st EXCEPT !.coord = <<>>, !.err = kNoError]

ClearData_(st) == [st EXCEPT !.coord = <<>>, !.index = <<>>, !.err = kNoError]

----------------------------------------------------------------------------
(* The operations of Model as functions of its fields                       *)
(* st = [coord, index, err, file]; an open attempt is [ok, lines]           *)

\* the end of Parser: Normalize_ if no line set an error
ParseEnd[r \in ModelState] ==
  IF r.err = kNoError THEN [r EXCEPT !.coord = Normalize_(r.coord)] ELSE r

ParseFile(st, lines) == ParseEnd[ParseLoop(lines, 1, st)]

Parser_Unguarded(st, file) ==
  IF ~file.ok THEN [st |-> [st EXCEPT !.err = kFailedToOpen], opened |-> <<st.file>>]
  ELSE [st |-> ParseFile(st, file.lines), opened |-> <<st.file>>]

Parser_OpenUnchecked(st, file) ==
  IF st.err # kNoError THEN [st |-> st, opened |-> <<>>]
  ELSE [st |-> ParseFile(st, file.lines), opened |-> <<st.file>>]

Parser_(st, file) ==
  IF st.err # kNoError THEN [st |-> st, opened |-> <<>>]
  ELSE IF ~file.ok
       THEN [st |-> [st EXCEPT !.err = kFailedToOpen], opened |-> <<st.file>>]
       ELSE [st |-> ParseFile(st, file.lines), opened |-> <<st.file>>]

SetFileName_StoreFirst(st, file_name) ==
  LET c == [ClearData_(st) EXCEPT !.file = file_name]
  IN  IF ~IsValidObjExtension_(file_name)
      THEN [c EXCEPT !.err = kFileWrongExtension]
      ELSE [c EXCEPT !.err = kNoError]

SetFileName_(st, file_name) ==
  LET c == ClearData_(st)
  IN  IF ~IsValidObjExtension_(file_name)
      THEN [c EXCEPT !.err = kFileWrongExtension]
      ELSE [c EXCEPT !.file = file_name, !.err = kNoError]

Transform_Leftover(c, s, strategy_type, value, axis) ==
  IF c = <<>> THEN [coord |-> c, strategy |-> s]
  ELSE IF StrategyOf(strategy_type) = ""
       THEN [coord |-> PerformTransformation(s, c, value, axis), strategy |-> s]
  ELSE [coord |-> PerformTransformation(StrategyOf(strategy_type), c, value, axis),
        strategy |-> StrategyOf(strategy_type)]

Transform_Resetting(c, s, strategy_type, value, axis) ==
  IF c = <<>> THEN [coord |-> c, strategy |-> s]
  ELSE IF StrategyOf(strategy_type) = "" THEN [coord |-> <<>>, strategy |-> s]
  ELSE [coord |-> PerformTransformation(StrategyOf(strategy_type), c, value, axis),
        strategy |-> StrategyOf(strategy_type)]

Transform_(c, s, strategy_type, value, axis) ==
  IF c = <<>> THEN [coord |-> c, strategy |-> s]
  ELSE IF StrategyOf(strategy_type) = "" THEN [coord |-> c, strategy |-> s]
  ELSE [coord |-> PerformTransformation(StrategyOf(strategy_type), c, value, axis),
        strategy |-> StrategyOf(strategy_type)]

----------------------------------------------------------------------------
(* Controller: LoadModel, TransformModel and the signals they emit.  The    *)
(* paths are ASCII, which QString::toStdString leaves as it is.             *)

\* the texts of GetErrorMessage_, in English
GetErrorMessage_(error_code) ==
  IF error_code = kFileWrongExtension THEN "wrong file extension, .obj expected"
  ELSE IF error_code = kFailedToOpen THEN "failed to open the file"
  ELSE IF error_code = kIncorrectData THEN "incorrect data in the file"
  ELSE "unknown error"

\* QFileInfo(file_path).fileName(): what follows the last '/'
FileNameFrom[path \in Text, i \in Nat] ==
  IF i = 0 \/ path[i] = "/" THEN SubSeq(path, i + 1, Len(path))
  ELSE FileNameFrom[path, i - 1]

EmitModelData_(st, filename) ==
  [signal |-> "ModelLoaded", vertex_index |-> st.index, vertex_coord |-> st.coord,
   filename |-> filename, vertex_count |-> Len(st.coord) \div 3,
   edge_count |-> Len(st.index) \div 2]

\* what Parser_ returns
ParserResult == [st : ModelState, opened : Seq(Text)]

\* the signals of LoadModel, from the Model after SetFileName and Parser
LoadModelEmit[parsed \in ParserResult, file_path \in Text] ==
  [st |-> parsed.st, opened |-> parsed.opened,
   emitted |->
     IF parsed.st.err # 0
     THEN <<[signal |-> "ModelLoadError", error_message |-> GetErrorMessage_(parsed.st.err)]>>
     ELSE <<EmitModelData_(parsed.st, FileNameFrom[file_path, Len(file_path)])>>]

LoadModel_AlwaysData(st, file_path, file) ==
  LET parsed == Parser_(SetFileName_(st, file_path), file)
  IN  [st |-> parsed.st, opened |-> parsed.opened,
       emitted |-> <<EmitModelData_(parsed.st, FileNameFrom[file_path, Len(file_path)])>>]

LoadModel_(st, file_path, file) ==
  LoadModelEmit[Parser_(SetFileName_(st, file_path), file), file_path]

\* the signal of TransformModel, from the Model after Transform
TransformModel_(st, s, strategy_type, value, axis) ==
  LET r == Transform_(st.coord, s, strategy_type, value, axis)
  IN  [coord |-> r.coord, strategy |-> r.strategy,
       emitted |-> <<[signal |-> "ModelTransformed", vertex_index |-> st.index,
                      vertex_coord |-> r.coord]>>]

----------------------------------------------------------------------------
(* View: the slider handlers, ClearSliders_, and OpenGLWidget::dropEvent    *)

\* the literals 0.01 and 0.001
Hundredth == DDiv[FromInt(1), FromInt(100)]

Thousandth == DDiv[FromInt(1), FromInt(1000)]

\* the sliders of ui_, named as the field of transform_state_ each is bound to
Sliders == {"move_x", "move_y", "move_z", "rotate_x", "rotate_y", "rotate_z", "scale"}

\* the arguments ConnectSlotSignals_ gives CreateSliderHandler_ for each slider
SliderBinding[name \in Sliders] ==
  CASE name = "move_x" -> [transform_type |-> 0, axis |-> 0, scale_factor |-> Hundredth]
    [] name = "move_y" -> [transform_type |-> 0, axis |-> 1, scale_factor |-> Hundredth]
    [] name = "move_z" -> [transform_type |-> 0, axis |-> 2, scale_factor |-> Hundredth]
    [] name = "rotate_x" -> [transform_type |-> 1, axis |-> 0, scale_factor |-> FromInt(1)]
    [] name = "rotate_y" -> [transform_type |-> 1, axis |-> 1, scale_factor |-> FromInt(1)]
    [] name = "rotate_z" -> [transform_type |-> 1, axis |-> 2, scale_factor |-> FromInt(1)]
    [] name = "scale" -> [transform_type |-> 2, axis |-> 0, scale_factor |-> Hundredth]

\* `if (std::abs(excess) > 0.001) { state_ref = new_value; emit ... amount }`
SliderDecide[transform_type \in Int, axis \in Int, new_value \in Dbl, state_ref \in Dbl, amount \in Dbl, excess \in Dbl] ==
  IF DLess(Thousandth, DAbs(excess))
  THEN [state_ref |-> new_value,
        emitted |-> <<[signal |-> "TransformRequested", strategy_type |-> transform_type,
                       value |-> amount, axis |-> axis]>>]
  ELSE [state_ref |-> state_ref, emitted |-> <<>>]

\* the kScale branch once scale_factor_change is known
SliderScaleBy[axis \in Int, new_value \in Dbl, state_ref \in Dbl, scale_factor_change \in Dbl] ==
  SliderDecide[2, axis, new_value, state_ref, scale_factor_change,
               DSub(scale_factor_change, FromInt(1))]

\* the kScale branch, state_ref already away from 0.0
SliderScale[axis \in Int, new_value \in Dbl, state_ref \in Dbl] ==
  SliderScaleBy[axis, new_value, state_ref, DDiv[new_value, state_ref]]

\* the other branch once delta is known
SliderDeltaBy[transform_type \in Int, axis \in Int, new_value \in Dbl, state_ref \in Dbl, delta \in Dbl] ==
  SliderDecide[transform_type, axis, new_value, state_ref, delta, delta]

\* the body of the lambda, new_value computed
SliderValue[transform_type \in Int, axis \in Int, new_value \in Dbl, state_ref \in Dbl] ==
  IF transform_type = 2
  THEN SliderScale[axis, new_value, IF state_ref = DZero THEN FromInt(1) ELSE state_ref]
  ELSE SliderDeltaBy[transform_type, axis, new_value, state_ref, DSub(new_value, state_ref)]

CreateSliderHandler_Absolute(transform_type, axis, scale_factor, state_ref, value) ==
  SliderDecide[transform_type, axis, DMul[FromInt(value), scale_factor], state_ref,
               DMul[FromInt(value), scale_factor],
               DSub(DMul[FromInt(value), scale_factor], state_ref)]

\* the handler CreateSliderHandler_ returns, called with value: the new
\* state_ref and the signal it emits, if any
CreateSliderHandler_(transform_type, axis, scale_factor, state_ref, value) ==
  SliderValue[transform_type, axis, DMul[FromInt(value), scale_factor], state_ref]

\* what ClearSliders_ leaves in the sliders and in transform_state_
ClearSliders_ ==
  [slider |-> [name \in Sliders |-> IF name = "scale" THEN 100 ELSE 0],
   transform_state_ |-> [name \in Sliders |-> IF name = "scale" THEN FromInt(1) ELSE DZero]]

UpperCase == <<"A", "B", "C", "D", "E", "F", "G", "H", "I", "J", "K", "L", "M",
               "N", "O", "P", "Q", "R", "S", "T", "U", "V", "W", "X", "Y", "Z">>

LowerCase == <<"a", "b", "c", "d", "e", "f", "g", "h", "i", "j", "k", "l", "m",
               "n", "o", "p", "q", "r", "s", "t", "u", "v", "w", "x", "y", "z">>

\* case folding of one character
ToLower(c) ==
  IF \E i \in 1..26 : UpperCase[i] = c
  THEN LowerCase[CHOOSE i \in 1..26 : UpperCase[i] = c]
  ELSE c

\* QString::endsWith(suffix, Qt::CaseInsensitive)
EndsWithCaseInsensitive(path, suffix) ==
  /\ Len(path) >= Len(suffix)
  /\ \A i \in 1..Len(suffix) :
        ToLower(path[Len(path) - Len(suffix) + i]) = ToLower(suffix[i])

\* OpenGLWidget::dropEvent on the local paths of the dropped urls: the
\* signals it emits
dropEvent_(urls) ==
  IF urls # <<>> /\ EndsWithCaseInsensitive(urls[1], ObjSuffix)
  THEN <<[signal |-> "fileDropped", filepath |-> urls[1]]>>
  ELSE <<>>

----------------------------------------------------------------------------
(* Inputs: paths, lines, files, transformation requests *)

PathEmpty == <<>>

PathShort == <<"a", ".", "o">>

PathBare == <<".", "o", "b", "j">>

PathUpper == <<"x", ".", "O", "B", "J">>

PathTxt == <<"t", "e", "s", "t", ".", "t", "x", "t">>

PathA == <<"a", ".", "o", "b", "j">>

PathB == <<"b", ".", "o", "b", "j">>

Paths == {PathEmpty, PathShort, PathBare, PathUpper, PathTxt, PathA, PathB}

LineVertexA == <<"v", " ", "1", " ", "2", " ", "3">>

LineVertexB == <<"v", " ", "0", " ", "1", " ", "0">>

LineVertexBig == <<"v", " ", "0", ".", "5", " ", "-", "2", " ", "2", "0">>

LineVertexWide == <<"v", " ", "1", " ", "2", " ", "4", "9">>

LineVertexTen == <<"v", " ", "1", "0", " ", "-", "1", "0", " ", "3">>

LineVertexShort == <<"v", " ", "1", " ", "2">>

LineVertexAlpha == <<"v", " ", "1", " ", "b", " ", "3">>

LineVertexExtra == <<"v", " ", "1", " ", "2", " ", "3", " ", "4">>

LineFaceTri == <<"f", " ", "1", " ", "2", " ", "3">>

LineFacePair == <<"f", " ", "1", " ", "2">>

LineFaceFar == <<"f", " ", "1", " ", "5">>

LineFaceJunk == <<"f", " ", "-", "1", " ", "0", " ", "b">>

LineComment == <<"#", " ", "c">>

LineGroup == <<"g", " ", "1">>

LineEmpty == <<>>

TokOne == <<"1">>

TokTwo == <<"2">>

TokMinus == <<"-", "1">>

TokZero == <<"0">>

TokAlpha == <<"b">>

TokMixed == <<"2", "b">>

TokThree == <<"3">>

\* the files a session may find behind its file name
SessionFiles ==
  { <<>>,
    <<LineComment, LineVertexA, LineVertexB, LineFacePair>>,
    <<LineVertexBig, LineVertexA, LineFaceTri>>,
    <<LineVertexA, LineVertexAlpha, LineVertexB>>,
    <<LineVertexA, LineFaceFar>>,
    <<LineFacePair, LineVertexA, LineVertexB>>,
    <<LineVertexExtra>>,
    <<LineVertexShort, LineFacePair>>,
    <<LineComment, LineGroup, LineEmpty>>,
    <<LineVertexA, LineFaceJunk>> }

\* every file of at most MaxLines lines over the lines below
ParseLines ==
  {LineVertexA, LineVertexBig, LineVertexWide, LineVertexTen, LineVertexAlpha,
   LineFaceTri, LineFaceFar, LineFaceJunk, LineComment, LineGroup, LineEmpty}

SeqsUpTo(S, n) == UNION {[1..k -> S] : k \in 0..n}

\* every line made of a marker and at most MaxFields fields over TokenSet
TokenSet == {TokOne, TokTwo, TokThree, TokMinus, TokZero, TokAlpha, TokMixed}

JoinFields[toks \in Seq(Text), i \in Nat, acc \in Text] ==
  IF i > Len(toks) THEN acc
  ELSE JoinFields[toks, i + 1, acc \o <<" ">> \o toks[i]]

FieldLines ==
  {JoinFields[toks, 1, <<m>>] : m \in {"v", "f"}, toks \in SeqsUpTo(TokenSet, MaxFields)}

ParseInputs == SeqsUpTo(ParseLines, MaxLines) \cup {<<l>> : l \in FieldLines}

OpenOutcomes(path, files) ==
  {[ok |-> FALSE, lines |-> <<>>]}
    \cup (IF path = <<>> THEN {} ELSE {[ok |-> TRUE, lines |-> f] : f \in files})

TransformRequests ==
  ({kMove} \X {FromInt(1), FromInt(-1)} \X {kX, kY, kZ})
    \cup ({kRotate} \X {FromInt(90), FromInt(-90)} \X {kX, kY, kZ})
    \cup ({kScale} \X {FromInt(2), DDiv[FromInt(1), FromInt(2)], FromInt(0), FromInt(-1)} \X {kX, kY, kZ})
    \cup ({kScale + 1} \X {FromInt(1)} \X {kX})

\* the files behind the buffers of SpecTransform
TransformFiles ==
  { <<LineVertexA, LineVertexB, LineFacePair>>,
    <<LineVertexBig, LineVertexA, LineFaceTri>>,
    <<LineVertexWide>>,
    <<LineVertexA>>,
    <<LineVertexA, LineVertexAlpha>>,
    <<LineComment>> }

PairRequests ==
  ({kMove} \X {FromInt(1), FromInt(-1), FromInt(0)} \X {kX, kY, kZ})
    \cup ({kRotate} \X {FromInt(90), FromInt(-90), FromInt(180), FromInt(-180)}
                   \X {kX, kY, kZ})
    \cup ({kScale} \X {FromInt(2), DDiv[FromInt(1), FromInt(2)]} \X {kX, kY, kZ})
    \cup ({kScale} \X {FromInt(3), DDiv[FromInt(1), FromInt(3)], FromInt(0),
                       FromInt(-1)} \X {kX})
    \cup ({kRotate} \X {FromInt(90)} \X {kZ + 1})
    \cup ({kScale + 1, kMove - 1} \X {FromInt(1)} \X {kX})

\* the values a slider is moved to
SliderValues[name \in Sliders] ==
  IF name = "scale" THEN {100, 50, 0}
  ELSE IF name \in {"rotate_x", "rotate_y", "rotate_z"} THEN {0, 90}
  ELSE IF name = "move_x" THEN {0, -30, -11}
  ELSE {0, -30}

PathDropA == <<"/", "a", ".", "o", "b", "j">>

PathDropUpper == <<"/", "x", ".", "O", "B", "J">>

PathDropTxt == <<"/", "t", ".", "t", "x", "t">>

\* the local paths of the urls of a drop
DropUrls == {<<>>, <<PathDropA>>, <<PathDropUpper>>, <<PathDropTxt, PathDropA>>}

\* the files behind the models the View shows
ViewFiles ==
  { <<LineVertexA, LineVertexB, LineFacePair>>,
    <<LineVertexA, LineVertexAlpha>> }

----------------------------------------------------------------------------
(* The session: Init is the Model singleton as constructed *)

Fields ==
  [coord |-> vertex_coord_, index |-> vertex_index_, err |-> error_code_,
   file |-> filename_]

Init ==
  /\ filename_ = <<>>
  /\ vertex_coord_ = <<>>
  /\ vertex_index_ = <<>>
  /\ error_code_ = kNoError
  /\ strategy_ = ""
  /\ last_op = "init"
  /\ arg = <<>>
  /\ opened_path = <<>>
  /\ input = <<>>
  /\ pre = [coord |-> <<>>, index |-> <<>>, err |-> kNoError, file |-> <<>>]
  /\ nops = 0
  /\ is_open = FALSE
  /\ trail = <<>>
  /\ handler = ""
  /\ emitted = <<>>
  /\ slider = ClearSliders_.slider
  /\ transform_state_ = ClearSliders_.transform_state_
  /\ requested = <<>>

SetFileName ==
  \E file_name \in Paths :
    LET r == SetFileName_(Fields, file_name)
    IN  /\ filename_' = r.file
        /\ vertex_coord_' = r.coord
        /\ vertex_index_' = r.index
        /\ error_code_' = r.err
        /\ last_op' = "SetFileName"
        /\ arg' = <<file_name>>
        /\ opened_path' = <<>>
        /\ input' = <<>>
        /\ pre' = Fields
        /\ nops' = 0
        /\ is_open' = FALSE
        /\ trail' = <<>>
        /\ handler' = ""
        /\ emitted' = <<>>
        /\ UNCHANGED strategy_
        /\ UNCHANGED viewVars

ParserOn(files) ==
  \E file \in OpenOutcomes(filename_, files) :
    \E r \in {Parser_(Fields, file)} :
        /\ filename_' = r.st.file
        /\ vertex_coord_' = r.st.coord
        /\ vertex_index_' = r.st.index
        /\ error_code_' = r.st.err
        /\ last_op' = "Parser"
        /\ opened_path' = r.opened
        /\ input' = IF r.opened = <<>> THEN <<>> ELSE file.lines
        /\ pre' = Fields
        /\ nops' = nops + 1
        /\ is_open' = (r.opened # <<>> /\ file.ok)
        /\ trail' = <<>>
        /\ handler' = ""
        /\ emitted' = <<>>
        /\ UNCHANGED <<strategy_, arg>>
        /\ UNCHANGED viewVars

Parser ==
  /\ nops < MaxOps
  /\ ParserOn(SessionFiles)

TransformOn(requests) ==
  /\ \E q \in requests :
       \E r \in {Transform_(vertex_coord_, strategy_, q[1], q[2], q[3])} :
           /\ vertex_coord_' = r.coord
           /\ strategy_' = r.strategy
           /\ last_op' = "Transform"
           /\ opened_path' = <<>>
           /\ input' = <<>>
           /\ pre' = Fields
           /\ nops' = nops + 1
           /\ is_open' = FALSE
           /\ trail' = Append(trail, [strategy_type |-> q[1], value |-> q[2],
                                      axis |-> q[3], before |-> vertex_coord_])
           /\ handler' = ""
           /\ emitted' = <<>>
           /\ UNCHANGED <<filename_, vertex_index_, error_code_, arg>>
           /\ UNCHANGED viewVars

Transform ==
  /\ nops < MaxOps
  /\ TransformOn(TransformRequests)

Next == SetFileName \/ Parser \/ Transform

Spec == Init /\ [][Next]_vars

----------------------------------------------------------------------------
(* The application: the Controller's slots on the Model singleton           *)

\* LoadModel(file_path) reached from the operation h, which emitted `before`
\* on the way; View::HandleModelLoaded_ ends with ClearSliders_
LoadModelFrom(h, before, file_path, files) ==
  \E named \in {SetFileName_(Fields, file_path)} :
    \E file \in OpenOutcomes(named.file, files) :
      \E r \in {LoadModel_(Fields, file_path, file)} :
        /\ filename_' = r.st.file
        /\ vertex_coord_' = r.st.coord
        /\ vertex_index_' = r.st.index
        /\ error_code_' = r.st.err
        /\ last_op' = "Parser"
        /\ arg' = <<file_path>>
        /\ opened_path' = r.opened
        /\ input' = IF r.opened = <<>> THEN <<>> ELSE file.lines
        /\ pre' = named
        /\ nops' = 1
        /\ is_open' = (r.opened # <<>> /\ file.ok)
        /\ trail' = <<>>
        /\ handler' = h
        /\ emitted' = before \o r.emitted
        /\ IF r.emitted[1].signal = "ModelLoaded"
           THEN /\ slider' = ClearSliders_.slider
                /\ transform_state_' = ClearSliders_.transform_state_
                /\ requested' = <<>>
           ELSE UNCHANGED viewVars
        /\ UNCHANGED strategy_

LoadModel ==
  \E file_path \in Paths : LoadModelFrom("LoadModel", <<>>, file_path, SessionFiles)

\* TransformModel(q) reached from the operation h, which emitted `before`
TransformModelFrom(h, before, q) ==
  \E r \in {TransformModel_(Fields, strategy_, q[1], q[2], q[3])} :
     /\ vertex_coord_' = r.coord
     /\ strategy_' = r.strategy
     /\ last_op' = "Transform"
     /\ opened_path' = <<>>
     /\ input' = <<>>
     /\ pre' = Fields
     /\ nops' = nops + 1
     /\ is_open' = FALSE
     /\ trail' = Append(trail, [strategy_type |-> q[1], value |-> q[2],
                                axis |-> q[3], before |-> vertex_coord_])
     /\ handler' = h
     /\ emitted' = before \o r.emitted
     /\ UNCHANGED <<filename_, vertex_index_, error_code_, arg>>

TransformModel ==
  /\ nops < MaxOps
  /\ \E q \in TransformRequests :
       /\ TransformModelFrom("TransformModel", <<>>, q)
       /\ UNCHANGED viewVars

NextController == LoadModel \/ TransformModel

SpecController == Init /\ [][NextController]_vars

----------------------------------------------------------------------------
(* The View on the Controller: sliders and drops, from a first model shown  *)

InitView ==
  \E f \in ViewFiles :
    \E r \in {LoadModel_([coord |-> <<>>, index |-> <<>>, err |-> kNoError, file |-> <<>>], PathDropA, [ok |-> TRUE, lines |-> f])} :
        /\ r.emitted[1].signal = "ModelLoaded"
        /\ filename_ = r.st.file
        /\ vertex_coord_ = r.st.coord
        /\ vertex_index_ = r.st.index
        /\ error_code_ = r.st.err
        /\ strategy_ = ""
        /\ last_op = "Parser"
        /\ arg = <<PathDropA>>
        /\ opened_path = r.opened
        /\ input = f
        /\ pre = [coord |-> <<>>, index |-> <<>>, err |-> kNoError, file |-> PathDropA]
        /\ nops = 1
        /\ is_open = TRUE
        /\ trail = <<>>
        /\ handler = "LoadModel"
        /\ emitted = r.emitted
        /\ slider = ClearSliders_.slider
        /\ transform_state_ = ClearSliders_.transform_state_
        /\ requested = <<>>

\* QSlider::valueChanged(value) of one slider: its handler, and
\* Controller::TransformModel if the handler emits TransformRequested
valueChanged ==
  /\ Len(requested) < MaxOps
  /\ \E name \in Sliders :
       \E value \in SliderValues[name] \ {slider[name]} :
         \E b \in {SliderBinding[name]} :
           \E h \in {CreateSliderHandler_(b.transform_type, b.axis, b.scale_factor,
                                           transform_state_[name], value)} :
             /\ slider' = [slider EXCEPT ![name] = value]
             /\ transform_state_' = [transform_state_ EXCEPT ![name] = h.state_ref]
             /\ IF h.emitted = <<>>
                THEN /\ handler' = "valueChanged"
                     /\ emitted' = <<>>
                     /\ requested' = requested
                     /\ UNCHANGED <<filename_, vertex_coord_, vertex_index_, error_code_,
                                    strategy_, last_op, arg, opened_path, input, pre,
                                    nops, is_open, trail>>
                ELSE /\ TransformModelFrom("valueChanged", h.emitted,
                                           <<h.emitted[1].strategy_type, h.emitted[1].value,
                                             h.emitted[1].axis>>)
                     /\ requested' = Append(requested,
                                            [slider |-> name,
                                             strategy_type |-> h.emitted[1].strategy_type,
                                             value |-> h.emitted[1].value,
                                             axis |-> h.emitted[1].axis])

\* OpenGLWidget::dropEvent: fileDropped makes the View emit SetModel, which
\* is connected to Controller::LoadModel
dropEvent ==
  \E urls \in DropUrls :
    \E dropped \in {dropEvent_(urls)} :
      IF dropped = <<>>
      THEN /\ handler' = "dropEvent"
           /\ emitted' = <<>>
           /\ UNCHANGED <<filename_, vertex_coord_, vertex_index_, error_code_,
                          strategy_, last_op, arg, opened_path, input, pre,
                          nops, is_open, trail>>
           /\ UNCHANGED viewVars
      ELSE LoadModelFrom("dropEvent",
                         dropped \o <<[signal |-> "SetModel", filepath |-> dropped[1].filepath]>>,
                         dropped[1].filepath, ViewFiles)

NextView == valueChanged \/ dropEvent

SpecView == InitView /\ [][NextView]_vars

----------------------------------------------------------------------------
(* One Parser call on a freshly named source, over every input of           *)
(* ParseInputs                                                              *)

InitParse ==
  /\ filename_ = PathA
  /\ vertex_coord_ = <<>>
  /\ vertex_index_ = <<>>
  /\ error_code_ = kNoError
  /\ strategy_ = ""
  /\ last_op = "SetFileName"
  /\ arg = <<PathA>>
  /\ opened_path = <<>>
  /\ input = <<>>
  /\ pre = [coord |-> <<>>, index |-> <<>>, err |-> kNoError, file |-> <<>>]
  /\ nops = 0
  /\ is_open = FALSE
  /\ trail = <<>>
  /\ handler = ""
  /\ emitted = <<>>
  /\ slider = ClearSliders_.slider
  /\ transform_state_ = ClearSliders_.transform_state_
  /\ requested = <<>>

ParseOnce ==
  /\ nops = 0
  /\ ParserOn(ParseInputs)

NextParse == ParseOnce

SpecParse == InitParse /\ [][NextParse]_vars

----------------------------------------------------------------------------
(* Parser called again, with no SetFileName in between, on a source that    *)
(* was opened and has not changed                                           *)

ParseAgain ==
  /\ last_op = "Parser"
  /\ is_open
  /\ nops <= MaxOps
  /\ ParserOn({input})

NextReload == ParseOnce \/ ParseAgain

SpecReload == InitParse /\ [][NextReload]_vars

----------------------------------------------------------------------------
(* Transform calls, at most MaxOps in a row, on the Model as a Parser call  *)
(* on one of TransformFiles left it                                         *)

InitTransform ==
  \E f \in TransformFiles :
    \E named \in {SetFileName_([coord |-> <<>>, index |-> <<>>, err |-> kNoError, file |-> <<>>], PathA)} :
      \E r \in {Parser_(named, [ok |-> TRUE, lines |-> f])} :
        /\ filename_ = r.st.file
        /\ vertex_coord_ = r.st.coord
        /\ vertex_index_ = r.st.index
        /\ error_code_ = r.st.err
        /\ strategy_ = ""
        /\ last_op = "Parser"
        /\ arg = <<PathA>>
        /\ opened_path = r.opened
        /\ input = f
        /\ pre = named
        /\ nops = 1
        /\ is_open = TRUE
        /\ trail = <<>>
        /\ handler = ""
        /\ emitted = <<>>
        /\ slider = ClearSliders_.slider
        /\ transform_state_ = ClearSliders_.transform_state_
        /\ requested = <<>>

TransformStep ==
  /\ Len(trail) < MaxOps
  /\ TransformOn(PairRequests)

NextTransform == TransformStep

SpecTransform == InitTransform /\ [][NextTransform]_vars

----------------------------------------------------------------------------
(* Vocabulary of the properties *)

IsVertexLine(line) == Len(line) >= 2 /\ line[1] = "v" /\ line[2] = " "

IsFaceLine(line) == Len(line) >= 2 /\ line[1] = "f" /\ line[2] = " "

\* the fields of a line after its two-character marker
FieldsOf(line) == Tokens[SubSeq(line, 3, Len(line)), 1, <<>>, <<>>]

\* a field that is, as a whole, a decimal numeral
IsNumeral(tok) ==
  LET body == IF tok # <<>> /\ tok[1] \in {"-", "+"} THEN Tail(tok) ELSE tok
  IN  /\ \A i \in 1..Len(body) : IsDigit(body[i]) \/ body[i] = "."
      /\ Cardinality({i \in 1..Len(body) : body[i] = "."}) <= 1
      /\ \E i \in 1..Len(body) : IsDigit(body[i])

\* the path ends in the literal ".obj" and has at least five characters
EndsInDotObj(path) ==
  /\ Len(path) >= 5
  /\ path[Len(path) - 3] = "."
  /\ path[Len(path) - 2] = "o"
  /\ path[Len(path) - 1] = "b"
  /\ path[Len(path)] = "j"

\* the lines applied one after the other, whatever the error code
FoldLinesFrom[lines \in Seq(Text), i \in Nat, st \in ModelState] ==
  IF i > Len(lines) THEN st ELSE FoldLinesFrom[lines, i + 1, LineStep(st, lines[i])]

FoldLines(lines, st) == FoldLinesFrom[lines, 1, st]

\* a vertex line that VertexParser_ rejects
IsMalformedVertexLine(line) ==
  IsVertexLine(line) /\ VertexParser_(pre, line).err = kIncorrectData

\* the position of the first malformed vertex line, Len + 1 when there is none
FirstMalformed(lines) ==
  IF \E i \in 1..Len(lines) : IsMalformedVertexLine(lines[i])
  THEN CHOOSE i \in 1..Len(lines) :
         /\ IsMalformedVertexLine(lines[i])
         /\ \A j \in 1..(i - 1) : ~IsMalformedVertexLine(lines[j])
  ELSE Len(lines) + 1

\* the cycle (i0,i1), (i1,i2), ..., (i(k-1),i0) as a flat sequence
CycleEdges(idx) ==
  IF Len(idx) >= 2
  THEN [j \in 1..(2 * Len(idx)) |->
          IF j % 2 = 1 THEN idx[(j + 1) \div 2]
          ELSE idx[((j \div 2) % Len(idx)) + 1]]
  ELSE <<>>

\* the cycles of the face lines of a file, in file order
RECURSIVE FaceCycles(_)
FaceCycles(lines) ==
  IF lines = <<>> THEN <<>>
  ELSE (IF IsFaceLine(Head(lines))
        THEN CycleEdges(FaceIndices[FieldsOf(Head(lines)), 1, <<>>])
        ELSE <<>>) \o FaceCycles(Tail(lines))

Loaded == last_op = "Parser" /\ opened_path # <<>> /\ input # <<>>

\* the largest absolute value of a non-empty sequence of doubles
MaxAbsOf(c) ==
  CHOOSE m \in {DAbs(c[i]) : i \in 1..Len(c)} :
    \A i \in 1..Len(c) : DLeq(DAbs(c[i]), m)

\* what the lines of the last Parser call left before Normalize_
Unnormalized == FoldLines(input, pre)

\* the last Transform call and the one before it
LastRequest == trail[Len(trail)]

RequestBefore == trail[Len(trail) - 1]

\* the last operation was a Transform of this kind on a loaded buffer
Applied(strategy_type) ==
  /\ last_op = "Transform"
  /\ LastRequest.strategy_type = strategy_type
  /\ pre.err = kNoError
  /\ pre.coord # <<>>

\* 2^-34, below 1e-10
Tolerance == <<1, <<1>>, -34>>

\* a is within Tolerance * scale of b
Near(a, b, scale) == DLeq(DAbs(DSub(a, b)), DMul[Tolerance, scale])

\* the components of vertex v (from 0) of a coordinate sequence
VertexAt(c, v) == <<c[3 * v + 1], c[3 * v + 2], c[3 * v + 3]>>

\* the quarter turn of the claim about each axis
QuarterTurn(p, axis) ==
  IF axis = kX THEN <<p[1], DNeg(p[3]), p[2]>>
  ELSE IF axis = kY THEN <<p[3], p[2], DNeg(p[1])>>
  ELSE <<p[2], DNeg(p[1]), p[3]>>

\* the second request undoes the first
IsInverse(first, second) ==
  /\ first.strategy_type = second.strategy_type
  /\ first.axis = second.axis
  /\ \/ first.strategy_type \in {kMove, kRotate} /\ second.value = DNeg(first.value)
     \/ /\ first.strategy_type = kScale
        /\ DLess(FromInt(0), first.value)
        /\ second.value = DDiv[FromInt(1), first.value]

\* two Transform calls in a row on a loaded buffer, the second undoing the first
InversePair ==
  /\ last_op = "Transform"
  /\ Len(trail) >= 2
  /\ error_code_ = kNoError
  /\ RequestBefore.before # <<>>
  /\ IsInverse(RequestBefore, LastRequest)

\* the scale of the rounding errors of an inverse pair
PairScale ==
  LET m == MaxAbsOf(RequestBefore.before)
      d == DAbs(RequestBefore.value)
  IN  IF RequestBefore.strategy_type = kMove /\ DLess(m, d) THEN d ELSE m

\* a + b without rounding
ExactSum(a, b) ==
  IF a[1] = 0 THEN b
  ELSE IF b[1] = 0 THEN a
  ELSE LET e == MinOf(a[3], b[3])
           ma == BShl[a[2], a[3] - e]
           mb == BShl[b[2], b[3] - e]
       IN  IF a[1] = b[1] THEN DPackNorm[a[1], BAdd[ma, mb], e]
           ELSE IF BCmp[ma, mb] = 0 THEN DZero
           ELSE IF BCmp[ma, mb] > 0 THEN DPackNorm[a[1], BSub[ma, mb], e]
           ELSE DPackNorm[b[1], BSub[mb, ma], e]

\* the requests a slider's (kind, axis) received since the last ModelLoaded
RequestsOf(name) ==
  SelectSeq(requested,
            LAMBDA q : /\ q.strategy_type = SliderBinding[name].transform_type
                       /\ q.axis = SliderBinding[name].axis)

\* the exact sum of the values, or of their absolute values, of requests
RECURSIVE SumOfValues(_)
SumOfValues(reqs) ==
  IF reqs = <<>> THEN DZero
  ELSE ExactSum(Head(reqs).value, SumOfValues(Tail(reqs)))

RECURSIVE SumOfSizes(_)
SumOfSizes(reqs) ==
  IF reqs = <<>> THEN DZero
  ELSE ExactSum(DAbs(Head(reqs).value), SumOfSizes(Tail(reqs)))

\* the double a slider's handler computes from the slider's value
SliderPosition(name) == DMul[FromInt(slider[name]), SliderBinding[name].scale_factor]

MoveSliders == {"move_x", "move_y", "move_z"}

RotateSliders == {"rotate_x", "rotate_y", "rotate_z"}

\* every request carries the kind and axis of the slider it came from
RequestsKeepBinding ==
  \A i \in 1..Len(requested) :
     /\ requested[i].strategy_type = SliderBinding[requested[i].slider].transform_type
     /\ requested[i].axis = SliderBinding[requested[i].slider].axis

----------------------------------------------------------------------------
(* C1: after a Parser call that ends with kNoError every entry of          *)
(* vertex_index_ is a vertex index: 0 <= entry < vertex_coord_.size() / 3.  *)
EdgeEndpointsInRange ==
  (last_op = "Parser" /\ error_code_ = kNoError) =>
     \A i \in 1..Len(vertex_index_) :
        0 <= vertex_index_[i] /\ vertex_index_[i] < Len(vertex_coord_) \div 3

(* C2: in every state vertex_coord_ has a multiple of 3 entries and        *)
(* vertex_index_ a multiple of 2.                                           *)
LengthsAligned ==
  Len(vertex_coord_) % 3 = 0 /\ Len(vertex_index_) % 2 = 0

LengthsAlignedWitness ==
  /\ last_op = "Transform"
  /\ Len(vertex_coord_) >= 6
  /\ Len(vertex_index_) >= 2
  /\ vertex_coord_ # pre.coord

(* C3: right after SetFileName, whatever the state before it, both          *)
(* sequences are empty and the error code is kNoError if the argument       *)
(* passes IsValidObjExtension_ and kFileWrongExtension otherwise.           *)
SetFileNameResets ==
  last_op = "SetFileName" =>
     /\ vertex_coord_ = <<>>
     /\ vertex_index_ = <<>>
     /\ error_code_ = IF IsValidObjExtension_(arg[1]) THEN kNoError
                      ELSE kFileWrongExtension

SetFileNameResetsWitness ==
  /\ last_op = "SetFileName"
  /\ pre.err = kIncorrectData
  /\ pre.coord # <<>>
  /\ error_code_ = kNoError

(* C4: a Parser call made while the error code is not kNoError changes no   *)
(* field of the Model and opens nothing.                                    *)
ErrorsSticky ==
  (last_op = "Parser" /\ pre.err # kNoError) =>
     Fields = pre /\ opened_path = <<>>

ErrorsStickyWitness ==
  /\ last_op = "Parser"
  /\ pre.err = kFailedToOpen
  /\ nops = 2

(* C5: whenever the error code is not kNoError both sequences are empty.    *)
ErrorMeansEmptyBuffer ==
  error_code_ # kNoError => vertex_coord_ = <<>> /\ vertex_index_ = <<>>

(* C6: a Transform call made while the error code is not kNoError, or       *)
(* while vertex_coord_ is empty, changes neither sequence nor the error     *)
(* code.                                                                    *)
TransformNoOpUnlessLoaded ==
  (last_op = "Transform" /\ (pre.err # kNoError \/ pre.coord = <<>>)) =>
     /\ vertex_coord_ = pre.coord
     /\ vertex_index_ = pre.index
     /\ error_code_ = pre.err

(* C7: SetFileName ends with kFileWrongExtension exactly when its argument  *)
(* does not end in ".obj" or is shorter than 5 characters, and while the    *)
(* last argument is such a path no operation opens anything.                *)
ExtensionRule ==
  /\ last_op = "SetFileName" =>
        (error_code_ = kFileWrongExtension <=> ~EndsInDotObj(arg[1]))
  /\ (arg # <<>> /\ ~EndsInDotObj(arg[1])) => opened_path = <<>>

ExtensionRuleWitness ==
  /\ last_op = "Parser"
  /\ arg = <<PathBare>>
  /\ filename_ = PathA
  /\ error_code_ = kFileWrongExtension

(* C8: a Parser call that ends with kIncorrectData holds exactly what the   *)
(* lines before the first malformed vertex line produce: no line after it   *)
(* has added a vertex or an edge.                                           *)
HardStop ==
  (Loaded /\ error_code_ = kIncorrectData) =>
     LET k == FirstMalformed(input)
         before == FoldLines(SubSeq(input, 1, k - 1), pre)
     IN  /\ k <= Len(input)
         /\ vertex_coord_ = before.coord
         /\ vertex_index_ = before.index

HardStopWitness ==
  /\ Loaded
  /\ error_code_ = kIncorrectData
  /\ input = <<LineVertexAlpha, LineVertexA>>
  /\ vertex_coord_ = <<>>

(* C9: a file of one vertex line loads without error exactly when the line  *)
(* has three fields after the marker, all of them numerals; a line with     *)
(* more or fewer fields, or a field that is no numeral, ends with           *)
(* kIncorrectData.                                                          *)
VertexLineExactlyThree ==
  (Loaded /\ Len(input) = 1 /\ IsVertexLine(input[1])) =>
     LET f == FieldsOf(input[1])
     IN  IF Len(f) = 3 /\ \A i \in 1..3 : IsNumeral(f[i])
         THEN /\ error_code_ = kNoError
              /\ vertex_coord_ = pre.coord \o [i \in 1..3 |-> ScanDouble[f[i], 1].val]
         ELSE error_code_ = kIncorrectData

(* C10: after a Parser call that read a file, vertex_index_ is what it was  *)
(* before followed, for each face line that was processed (those before     *)
(* the first malformed vertex line), in file order, by the cycle            *)
(* (i0,i1), ..., (i(k-1),i0) of its k >= 2 indices, and by nothing for a    *)
(* face line of fewer than 2 indices.                                       *)
FaceEdgesCyclic ==
  Loaded =>
     vertex_index_ =
        pre.index \o FaceCycles(SubSeq(input, 1, FirstMalformed(input) - 1))

FaceEdgesCyclicWitness ==
  /\ Loaded
  /\ error_code_ = kNoError
  /\ input = <<<<"f", " ", "1", " ", "2", " ", "3", " ", "1">>>>
  /\ vertex_index_ = <<0, 1, 1, 2, 2, 0, 0, 0>>

(* C11: a file of face lines only loads with kNoError whatever the tokens   *)
(* are, and adds to vertex_index_, line after line, the cycle of the        *)
(* indices n - 1 of the tokens that are positive integers n; every other    *)
(* token (no integer, zero, negative) is dropped.                           *)
IsPositiveInteger(tok) ==
  LET body == IF tok # <<>> /\ tok[1] = "+" THEN Tail(tok) ELSE tok
  IN  /\ body # <<>>
      /\ \A i \in 1..Len(body) : IsDigit(body[i])
      /\ \E i \in 1..Len(body) : body[i] # "0"

PositiveIndices(toks) ==
  LET kept == SelectSeq(toks, IsPositiveInteger)
  IN  [i \in 1..Len(kept) |-> ScanInt[kept[i]].val - 1]

RECURSIVE PositiveCycles(_)
PositiveCycles(lines) ==
  IF lines = <<>> THEN <<>>
  ELSE CycleEdges(PositiveIndices(FieldsOf(Head(lines)))) \o PositiveCycles(Tail(lines))

FaceLinesNeverFail ==
  (Loaded /\ \A i \in 1..Len(input) : IsFaceLine(input[i])) =>
     /\ error_code_ = kNoError
     /\ vertex_coord_ = pre.coord
     /\ vertex_index_ = pre.index \o PositiveCycles(input)

(* C12: a Parser call made with kNoError whose file cannot be opened ends   *)
(* with kFailedToOpen and leaves both sequences as they were.               *)
FailedOpenKeepsBuffer ==
  (last_op = "Parser" /\ pre.err = kNoError /\ ~is_open) =>
     /\ opened_path = <<pre.file>>
     /\ error_code_ = kFailedToOpen
     /\ vertex_coord_ = pre.coord
     /\ vertex_index_ = pre.index

FailedOpenKeepsBufferWitness ==
  /\ last_op = "Parser"
  /\ pre.err = kNoError
  /\ ~is_open
  /\ pre.coord # <<>>
  /\ pre.index # <<>>
  /\ error_code_ = kFailedToOpen

(* C13: after a Parser call that ends with kNoError, if the largest         *)
(* absolute coordinate read is above 10.0 every coordinate is the one read  *)
(* times 1 / max and the largest absolute coordinate is exactly 1.0; if it  *)
(* is at most 10.0 the coordinates are those read.  The edges and the       *)
(* number of coordinates are those read in both cases.                      *)
NormalizedToOne ==
  (Loaded /\ error_code_ = kNoError /\ vertex_coord_ # <<>>) =>
     \E raw \in {Unnormalized} :
        /\ Len(vertex_coord_) = Len(raw.coord)
        /\ vertex_index_ = raw.index
        /\ IF DLess(FromInt(10), MaxAbsOf(raw.coord))
           THEN /\ \A i \in 1..Len(raw.coord) :
                     vertex_coord_[i] =
                        DMul[raw.coord[i], DDiv[FromInt(1), MaxAbsOf(raw.coord)]]
                /\ MaxAbsOf(vertex_coord_) = FromInt(1)
           ELSE vertex_coord_ = raw.coord

(* C14: after a Parser call that ends with kNoError no coordinate is above  *)
(* 1.0.                                                                     *)
MaxCoordAtMostOne ==
  (Loaded /\ error_code_ = kNoError) =>
     \A i \in 1..Len(vertex_coord_) : DLeq(vertex_coord_[i], FromInt(1))

(* C15: Move by d along axis a on a loaded, non-empty buffer adds d to the  *)
(* coordinate at offset a of every vertex and leaves the coordinates at     *)
(* the other two offsets as they were, for positive, negative and zero d.   *)
MoveAddsAlongAxis ==
  Applied(kMove) =>
     /\ Len(vertex_coord_) = Len(pre.coord)
     /\ \A j \in 1..Len(pre.coord) :
          vertex_coord_[j] =
             IF (j - 1) % 3 = LastRequest.axis
             THEN DAdd[pre.coord[j], LastRequest.value]
             ELSE pre.coord[j]

MoveAddsAlongAxisWitness ==
  /\ Applied(kMove)
  /\ LastRequest.value = FromInt(-1)
  /\ LastRequest.axis = kY
  /\ Len(pre.coord) >= 6
  /\ vertex_coord_[2] # pre.coord[2]
  /\ vertex_coord_[5] # pre.coord[5]

(* C16 as stated: Rotate by 90 degrees maps every vertex (x, y, z) to       *)
(* exactly (x, -z, y) about X, (z, y, -x) about Y, (y, -x, z) about Z.      *)
RotateQuarterExact ==
  (Applied(kRotate) /\ LastRequest.value = FromInt(90)
                    /\ LastRequest.axis \in {kX, kY, kZ}) =>
     \A v \in 0..(Len(pre.coord) \div 3 - 1) :
        VertexAt(vertex_coord_, v) = QuarterTurn(VertexAt(pre.coord, v), LastRequest.axis)

(* C16 as amended: Rotate by 90 degrees maps every vertex (x, y, z) to      *)
(* within 1e-10 times its largest absolute component of (x, -z, y) about    *)
(* X, (z, y, -x) about Y, (y, -x, z) about Z, each vertex from its own      *)
(* components before the call; the component on the axis is unchanged.      *)
RotateQuarterNear ==
  (Applied(kRotate) /\ LastRequest.value = FromInt(90)
                    /\ LastRequest.axis \in {kX, kY, kZ}) =>
     /\ Len(vertex_coord_) = Len(pre.coord)
     /\ \A v \in 0..(Len(pre.coord) \div 3 - 1) :
          \E old \in {VertexAt(pre.coord, v)} :
             /\ \A k \in 1..3 :
                  Near(VertexAt(vertex_coord_, v)[k],
                       QuarterTurn(old, LastRequest.axis)[k], MaxAbsOf(old))
             /\ vertex_coord_[3 * v + 1 + LastRequest.axis] = old[1 + LastRequest.axis]

RotateQuarterNearWitness ==
  /\ Applied(kRotate)
  /\ LastRequest.value = FromInt(90)
  /\ LastRequest.axis = kX
  /\ Len(pre.coord) >= 6
  /\ VertexAt(pre.coord, 1) = <<FromInt(0), FromInt(1), FromInt(0)>>
  /\ vertex_coord_[5] = CosHalfPi
  /\ vertex_coord_[6] = FromInt(1)

(* C17: Scale by a value above 0 multiplies every coordinate by the value,  *)
(* whatever the axis; Scale by zero or a negative value changes nothing.    *)
ScaleMultipliesAll ==
  Applied(kScale) =>
     IF DLess(FromInt(0), LastRequest.value)
     THEN /\ Len(vertex_coord_) = Len(pre.coord)
          /\ \A j \in 1..Len(pre.coord) :
               vertex_coord_[j] = DMul[pre.coord[j], LastRequest.value]
     ELSE vertex_coord_ = pre.coord

ScaleMultipliesAllWitness ==
  /\ Applied(kScale)
  /\ LastRequest.value = FromInt(2)
  /\ LastRequest.axis = kZ
  /\ Len(pre.coord) >= 6
  /\ \A j \in 1..Len(pre.coord) : pre.coord[j] # DZero => vertex_coord_[j] # pre.coord[j]

(* C18 as stated: Move by d then Move by -d, Rotate by t then Rotate by -t, *)
(* Scale by s > 0 then Scale by 1/s, on the same axis, restore every        *)
(* coordinate to exactly its value before the pair.                         *)
InversePairRestores ==
  InversePair => vertex_coord_ = RequestBefore.before

(* C18 as amended: such a pair restores every coordinate to within 1e-10    *)
(* times the largest absolute coordinate before the pair (or |d|, if        *)
(* larger, for Move).                                                       *)
InversePairRestoresNear ==
  InversePair =>
     /\ Len(vertex_coord_) = Len(RequestBefore.before)
     /\ \A j \in 1..Len(vertex_coord_) :
          Near(vertex_coord_[j], RequestBefore.before[j], PairScale)

InversePairRestoresNearWitness ==
  /\ InversePair
  /\ RequestBefore.strategy_type = kRotate
  /\ pre.coord # RequestBefore.before
  /\ vertex_coord_ # RequestBefore.before

(* C19: a line that is empty, starts with '#', or is neither a vertex line  *)
(* nor a face line changes nothing and does not stop the reading: a Parser  *)
(* call ends as it would on the file without these lines, and on a file of  *)
(* such lines only it leaves both sequences as they were, with kNoError.    *)
IsSkippedLine(line) ==
  line = <<>> \/ line[1] = "#" \/ ~(IsVertexLine(line) \/ IsFaceLine(line))

IsDataLine(line) == ~IsSkippedLine(line)

SkippedLinesIgnored ==
  Loaded =>
     \E kept \in {SelectSeq(input, IsDataLine)} :
        /\ Fields = ParseFile(pre, kept)
        /\ kept = <<>> =>
              /\ vertex_coord_ = pre.coord
              /\ vertex_index_ = pre.index
              /\ error_code_ = kNoError

SkippedLinesIgnoredWitness ==
  /\ Loaded
  /\ input = <<LineGroup, LineVertexA>>
  /\ error_code_ = kNoError
  /\ Len(vertex_coord_) = 3

(* C20: every LoadModel call emits exactly one signal: ModelLoaded, with    *)
(* the Model's edges and coordinates, vertex count = coordinates / 3 and    *)
(* edge count = edges / 2, exactly when the error code after SetFileName    *)
(* and Parser is kNoError, and ModelLoadError otherwise.                    *)
LoadEmitsOneSignal ==
  handler = "LoadModel" =>
     /\ Len(emitted) = 1
     /\ emitted[1].signal \in {"ModelLoaded", "ModelLoadError"}
     /\ emitted[1].signal = "ModelLoaded" <=> error_code_ = kNoError
     /\ emitted[1].signal = "ModelLoaded" =>
           /\ emitted[1].vertex_index = vertex_index_
           /\ emitted[1].vertex_coord = vertex_coord_
           /\ emitted[1].vertex_count = Len(vertex_coord_) \div 3
           /\ emitted[1].edge_count = Len(vertex_index_) \div 2

LoadEmitsOneSignalWitness ==
  /\ handler = "LoadModel"
  /\ error_code_ = kNoError
  /\ emitted[1].signal = "ModelLoaded"
  /\ emitted[1].vertex_count > 0
  /\ emitted[1].edge_count > 0

(* C21: a TransformModel call made while the model is not loaded (the error *)
(* code is not kNoError, or the coordinates are empty) emits no             *)
(* ModelTransformed.                                                        *)
TransformedOnlyWhenLoaded ==
  (handler = "TransformModel" /\ (pre.err # kNoError \/ pre.coord = <<>>)) =>
     \A i \in 1..Len(emitted) : emitted[i].signal # "ModelTransformed"

(* C22: a Parser call that opens a source with no vertex line and no face   *)
(* line (empty, or comments and unrecognised lines only) ends with kNoError *)
(* and with both sequences empty.                                           *)
HasNoDataLine(lines) ==
  \A i \in 1..Len(lines) : ~(IsVertexLine(lines[i]) \/ IsFaceLine(lines[i]))

EmptySourceLoadsEmpty ==
  (last_op = "Parser" /\ is_open /\ HasNoDataLine(input)) =>
     /\ error_code_ = kNoError
     /\ vertex_coord_ = <<>>
     /\ vertex_index_ = <<>>

(* C23: a Parser call that follows a successful Parser call, with no        *)
(* SetFileName in between and the source unchanged, leaves vertex_coord_    *)
(* and vertex_index_ as the first call left them.                           *)
ReloadIdempotent ==
  (last_op = "Parser" /\ nops >= 2 /\ is_open /\ pre.err = kNoError) =>
     /\ vertex_coord_ = pre.coord
     /\ vertex_index_ = pre.index

(* C24: after a LoadModel call that emitted ModelLoadError, and until a     *)
(* LoadModel call emits ModelLoaded, no ModelTransformed carries a          *)
(* non-empty coordinate sequence.  LoadModel alone sets the error code, so  *)
(* the code is not kNoError exactly between these two points.               *)
FailedLoadNeverDelivered ==
  (handler = "TransformModel" /\ error_code_ # kNoError) =>
     \A i \in 1..Len(emitted) :
        emitted[i].signal = "ModelTransformed" => emitted[i].vertex_coord = <<>>

(* C25: a Transform call, whatever its kind, value and axis and whatever    *)
(* the state, leaves vertex_index_, error_code_, filename_ and the length   *)
(* of vertex_coord_ unchanged.                                              *)
TransformFrame ==
  last_op = "Transform" =>
     /\ vertex_index_ = pre.index
     /\ error_code_ = pre.err
     /\ filename_ = pre.file
     /\ Len(vertex_coord_) = Len(pre.coord)

TransformFrameWitness ==
  /\ last_op = "Transform"
  /\ vertex_coord_ # pre.coord
  /\ vertex_index_ # <<>>
  /\ error_code_ = kNoError

(* C26: filename_ starts empty and is replaced only by a SetFileName call   *)
(* whose argument passes the extension check, and then by that argument: a  *)
(* rejected argument is never stored, so filename_ is always the most       *)
(* recent accepted path.  vertex_coord_ stops being empty only in a Parser  *)
(* call that follows a SetFileName call with an accepted path.              *)
IsAcceptedPath(path) == Len(path) >= 5 /\ EndsInDotObj(path)

SourceOnlyAccepted ==
  [][/\ IF last_op' = "SetFileName" /\ IsAcceptedPath(arg'[1])
        THEN filename_' = arg'[1]
        ELSE filename_' = filename_
     /\ (vertex_coord_ = <<>> /\ vertex_coord_' # <<>>) =>
           /\ last_op' = "Parser"
           /\ arg' # <<>>
           /\ IsAcceptedPath(arg'[1])
           /\ filename_' = arg'[1]]_vars

SourceOnlyAcceptedWitness ==
  /\ last_op = "SetFileName"
  /\ ~IsAcceptedPath(arg[1])
  /\ arg[1] # <<>>
  /\ filename_ # <<>>
  /\ filename_ # arg[1]
  /\ pre.coord # <<>>

(* C27: a Transform call whose strategy_type is none of kMove, kRotate and  *)
(* kScale changes no coordinate, whatever strategy an earlier call left     *)
(* installed; a Rotate call whose axis is none of kX, kY and kZ changes no  *)
(* coordinate either.                                                       *)
IsUnknownRequest(q) ==
  \/ q.strategy_type \notin {kMove, kRotate, kScale}
  \/ q.strategy_type = kRotate /\ q.axis \notin {kX, kY, kZ}

UnknownRequestNoOp ==
  (last_op = "Transform" /\ trail # <<>> /\ IsUnknownRequest(LastRequest)) =>
     vertex_coord_ = LastRequest.before

UnknownRequestNoOpWitness ==
  /\ last_op = "Transform"
  /\ Len(trail) = 2
  /\ RequestBefore.strategy_type = kMove
  /\ strategy_ = "Move"
  /\ LastRequest.strategy_type \notin {kMove, kRotate, kScale}
  /\ vertex_coord_ # <<>>
  /\ vertex_coord_ # RequestBefore.before

(* C28 as stated: for each move and rotate slider the deltas requested for  *)
(* its kind and axis since the last ModelLoaded add up to the slider's      *)
(* value times its factor and to the tracked state; no request carries      *)
(* another kind or axis than its slider's.                                  *)
SliderSumExact ==
  /\ RequestsKeepBinding
  /\ \A name \in MoveSliders \cup RotateSliders :
        /\ SumOfValues(RequestsOf(name)) = SliderPosition(name)
        /\ SumOfValues(RequestsOf(name)) = transform_state_[name]

(* C28 as amended: the tracked state is the slider's value times its factor *)
(* as the handler computes it; the deltas of a rotate slider add up to it   *)
(* exactly, those of a move slider to within 2^-53 times the sum of their   *)
(* absolute values; no request carries another kind or axis than its        *)
(* slider's.                                                                *)
SliderSumNear ==
  /\ RequestsKeepBinding
  /\ \A name \in MoveSliders \cup RotateSliders :
        transform_state_[name] = SliderPosition(name)
  /\ \A name \in RotateSliders :
        SumOfValues(RequestsOf(name)) = transform_state_[name]
  /\ \A name \in MoveSliders :
        \E sum \in {SumOfValues(RequestsOf(name))} :
          \E size \in {SumOfSizes(RequestsOf(name))} :
            ExactSum(DAbs(ExactSum(sum, DNeg(transform_state_[name]))),
                     DNeg(<<size[1], size[2], size[3] - 53>>))[1] <= 0

SliderSumNearWitness ==
  /\ handler = "valueChanged"
  /\ slider["move_x"] = -11
  /\ Len(RequestsOf("move_x")) = 2
  /\ SumOfValues(RequestsOf("move_x")) # transform_state_["move_x"]

(* C29: while the model loaded at the last ModelLoaded is shown, the        *)
(* product of the factors of the Scale requests since then that were not    *)
(* no-ops (factor above 0) equals, to within rounding, the tracked scale    *)
(* transform_state_.scale.                                                  *)
RECURSIVE NetScale(_)
NetScale(reqs) ==
  IF reqs = <<>> THEN FromInt(1)
  ELSE IF DLeq(Head(reqs).value, FromInt(0)) THEN NetScale(Tail(reqs))
  ELSE DMul[Head(reqs).value, NetScale(Tail(reqs))]

ScaleStateIsNetScale ==
  (error_code_ = kNoError /\ vertex_coord_ # <<>>) =>
     Near(NetScale(RequestsOf("scale")), transform_state_["scale"], FromInt(1))

(* C30: a load started by a drop that dropEvent accepted never ends with    *)
(* kFileWrongExtension.                                                     *)
DropNeverWrongExtension ==
  (handler = "dropEvent" /\ emitted # <<>> /\ emitted[1].signal = "fileDropped") =>
     error_code_ # kFileWrongExtension

====
